---- MODULE Spec2Model ----
(***************************************************************************)
(* Vyom platform microservices: the outfit composer and the outfit         *)
(* service's POST /generate (outfit-service), the wardrobe service's item  *)
(* store (wardrobe-service/index.js) and the monolithic gateway's          *)
(* POST /outfits/generate (api-gateway).                                   *)
(*                                                                         *)
(* Numbers are scaled integers: a value r of Math.random() in [0,1) is the *)
(* integer r * RandDen, a confidence c is the integer c * 1000.            *)
(***************************************************************************)
EXTENDS Integers, Sequences, FiniteSets

VARIABLES
  cItems,          \* composer run: the clothingItems argument
  cPrefs,          \* composer run: the preferences argument
  cRnd,            \* composer run: the values the randomness source yields, in order
  cFirst,          \* composer run: result of the first call, with the clock it read
  cSecond,         \* composer run: result of a second call on the same arguments
  deployment,      \* which gateway runs: the microservices or the monolithic api-gateway
  clothing_items,  \* wardrobe service: the clothing_items collection, in insertion order
  db,              \* wardrobe service: whether initDatabase connected and set db
  nextObjectId,    \* wardrobe service: the _id the next insertOne generates
  pendingPut,      \* wardrobe service: the PUT /items/:id between its two awaits
  pc,              \* outfit service: position of the POST /generate request being served
  request,         \* outfit service / monolith: the request being served
  reply,           \* outfit service: what the awaited axios.get resolved or rejected with
  response,        \* outfit service / monolith: the response sent
  fetches,         \* outfit service: axios.get calls made for the request
  composed,        \* outfit service: composer calls made for the request
  cancelled,       \* outfit service: the client closed the connection of the request
  clothingItems,   \* monolithic gateway: the in-memory clothingItems array
  gwProxy,         \* api gateway: the proxyRequest call being served
  gwHealth,        \* api gateway: the GET /health request being served
  authDb,          \* auth service: whether initDatabase connected to MySQL
  authUsers,       \* auth service: the rows of the MySQL table users
  users,           \* monolithic gateway: the in-memory users array
  registering,     \* monolithic gateway: POST /auth/register handlers awaiting bcrypt.hash
  authReply,       \* auth service / monolith: the response to the last login or registration
  user_profiles,   \* profile service: the user_profiles collection
  profilePending,  \* profile service: the handlers of /profile waiting for their second database call
  profileReply     \* profile service: the response sent last

composerVars == <<cItems, cPrefs, cRnd, cFirst, cSecond>>
wardrobeVars == <<clothing_items, db, nextObjectId, pendingPut>>
outfitVars == <<pc, request, reply, response, fetches, composed, cancelled>>
monolithVars == <<clothingItems>>
gatewayVars == <<gwProxy, gwHealth>>
authVars == <<authDb, authUsers, users, registering, authReply>>
profileVars == <<user_profiles, profilePending, profileReply>>
edgeVars == <<gatewayVars, authVars, profileVars>>

vars == <<cItems, cPrefs, cRnd, cFirst, cSecond, deployment, clothing_items, db,
          nextObjectId, pendingPut, pc, request, reply, response, fetches, composed, cancelled,
          clothingItems, gwProxy, gwHealth, authDb, authUsers, users, registering, authReply,
          user_profiles, profilePending, profileReply>>

(***************************************************************************)
(* Bounds of the model.                                                    *)
(***************************************************************************)
\* Largest catalog handed to the composer.
MaxItems == 3
\* Resolution of the modelled Math.random(): the value k stands for k / RandDen.
RandDen == 10

(***************************************************************************)
(* JavaScript values.                                                      *)
(***************************************************************************)
\* The value of a property that is absent from an object.
Undefined == "undefined"

\* !v for the string-or-undefined values a preference field takes.
Falsy(v) == v \in {Undefined, ""}

\* A destructuring default `{ f = d } = obj`: d replaces undefined only.
OrDefault(v, d) == IF v = Undefined THEN d ELSE v

\* arr?.includes(v), as a condition. A tag array is the set of its elements; an
\* absent array is the empty set, `undefined?.includes(v)` being falsy like
\* `[].includes(v)`.
Includes(arr, v) == v \in arr


(***************************************************************************)
(* Outfit composer: generateOutfitRecommendation.                          *)
(***************************************************************************)
TopCategories == {"top", "shirt", "blouse", "t-shirt"}
BottomCategories == {"bottom", "pants", "jeans", "skirt", "shorts"}
OuterwearCategories == {"outerwear", "jacket", "coat", "blazer"}
FootwearCategories == {"footwear", "shoes", "boots", "sneakers"}
AccessoryCategories == {"accessory", "belt", "bag", "jewelry"}

\* The filter callback with the season test reduced to the tag lookup: neither
\* an unset season nor "all-year" lets an item pass.
MatchesPreferencesByTagOnly(item, occasion, season) ==
  LET matchesOccasion == Falsy(occasion) \/ Includes(item.occasions, occasion)
      matchesSeason == Includes(item.seasons, season)
  IN matchesOccasion /\ matchesSeason

\* The filter callback of availableItems.
MatchesPreferences(item, occasion, season) ==
  LET matchesOccasion == Falsy(occasion) \/ Includes(item.occasions, occasion)
      matchesSeason == Falsy(season) \/ season = "all-year" \/ Includes(item.seasons, season)
  IN matchesOccasion /\ matchesSeason

\* The categories object with footwear filed under accessories: the footwear
\* slot stays empty and shoes are taken by the accessory coin.
CategorizeFootwearAsAccessory(availableItems) ==
  [top |-> SelectSeq(availableItems, LAMBDA item: item.category \in TopCategories),
   bottom |-> SelectSeq(availableItems, LAMBDA item: item.category \in BottomCategories),
   outerwear |-> SelectSeq(availableItems, LAMBDA item: item.category \in OuterwearCategories),
   footwear |-> <<>>,
   accessories |-> SelectSeq(availableItems,
                             LAMBDA item: item.category \in FootwearCategories
                                          \/ item.category \in AccessoryCategories)]

\* The categories object.
Categorize(availableItems) ==
  [top |-> SelectSeq(availableItems, LAMBDA item: item.category \in TopCategories),
   bottom |-> SelectSeq(availableItems, LAMBDA item: item.category \in BottomCategories),
   outerwear |-> SelectSeq(availableItems, LAMBDA item: item.category \in OuterwearCategories),
   footwear |-> SelectSeq(availableItems, LAMBDA item: item.category \in FootwearCategories),
   accessories |-> SelectSeq(availableItems, LAMBDA item: item.category \in AccessoryCategories)]

\* The k-th value (k = 0, 1, ...) Math.random() returns during one call.
Random(rnd, k) == rnd[(k % Len(rnd)) + 1]

\* list[Math.floor(r * list.length)], r the random value.
RandomElementOf(list, r) == list[((r * Len(list)) \div RandDen) + 1]

\* r > tenths / 10, r the random value.
Exceeds(r, tenths) == r * 10 > tenths * RandDen

\* 0.85 + r, the random value not scaled to a tenth, in thousandths.
ConfidenceUnscaled(r) == 850 + ((r * 1000) \div RandDen)

\* 0.85 + (r * 0.1), in thousandths.
Confidence(r) == 850 + ((r * 100) \div RandDen)

\* `outfit_${Date.now()}`: the id without the pass number.
OutfitIdOfClock(now, i) == <<"outfit", now>>

\* `outfit_${Date.now()}_${i}`
OutfitId(now, i) == <<"outfit", now, i>>

\* `Perfect ${occasion} outfit for ${season}: ${itemNames}`
Description(occasion, season, outfitItems) ==
  <<"Perfect", occasion, "outfit for", season,
    [j \in 1..Len(outfitItems) |-> outfitItems[j].name]>>

\* One pass of the loop body: the outfit built in iteration i, and the number of
\* random values consumed so far. k0 is the number consumed before the pass.
BuildOutfit(categories, occasion, season, style, rnd, now, i, k0) ==
  LET confidence == Confidence(Random(rnd, k0))
      k1 == k0 + 1
      hasTop == Len(categories.top) > 0
      items1 == IF hasTop
                THEN <<RandomElementOf(categories.top, Random(rnd, k1))>>
                ELSE <<>>
      k2 == IF hasTop THEN k1 + 1 ELSE k1
      hasBottom == Len(categories.bottom) > 0
      items2 == IF hasBottom
                THEN Append(items1, RandomElementOf(categories.bottom, Random(rnd, k2)))
                ELSE items1
      k3 == IF hasBottom THEN k2 + 1 ELSE k2
      hasOuterwear == Len(categories.outerwear) > 0
      addOuterwear == hasOuterwear /\ Exceeds(Random(rnd, k3), 5)
      k4 == IF hasOuterwear THEN k3 + 1 ELSE k3
      items3 == IF addOuterwear
                THEN Append(items2, RandomElementOf(categories.outerwear, Random(rnd, k4)))
                ELSE items2
      k5 == IF addOuterwear THEN k4 + 1 ELSE k4
      hasFootwear == Len(categories.footwear) > 0
      items4 == IF hasFootwear
                THEN Append(items3, RandomElementOf(categories.footwear, Random(rnd, k5)))
                ELSE items3
      k6 == IF hasFootwear THEN k5 + 1 ELSE k5
      hasAccessories == Len(categories.accessories) > 0
      addAccessory == hasAccessories /\ Exceeds(Random(rnd, k6), 3)
      k7 == IF hasAccessories THEN k6 + 1 ELSE k6
      items5 == IF addAccessory
                THEN Append(items4, RandomElementOf(categories.accessories, Random(rnd, k7)))
                ELSE items4
      k8 == IF addAccessory THEN k7 + 1 ELSE k7
  IN [outfit |-> [id |-> OutfitId(now, i),
                  occasion |-> occasion,
                  season |-> season,
                  style |-> style,
                  items |-> items5,
                  confidence |-> confidence,
                  description |-> Description(occasion, season, items5)],
      consumed |-> k8]

\* The test `outfit.items.length >= 1`.
KeepOutfitNonEmpty(outfit) == Len(outfit.items) >= 1

\* The test guarding outfits.push(outfit).
KeepOutfit(outfit) == Len(outfit.items) >= 2

\* The loop bound written as `i <= 3`.
OutfitCountOffByOne == 3 + 1

\* Number of passes of the generation loop.
OutfitCount == 3

\* The loop `for (let i = 0; i < 3; i++)`, from pass i on.
RECURSIVE GenerateLoop(_, _, _, _, _, _, _, _)
GenerateLoop(categories, occasion, season, style, rnd, now, i, k) ==
  IF i < OutfitCount
  THEN LET pass == BuildOutfit(categories, occasion, season, style, rnd, now, i, k)
           rest == GenerateLoop(categories, occasion, season, style, rnd, now,
                                i + 1, pass.consumed)
       IN IF KeepOutfit(pass.outfit) THEN <<pass.outfit>> \o rest ELSE rest
  ELSE <<>>

\* The items passing the eligibility filter, with the defaults of the
\* destructured preferences applied.
AvailableItems(items, preferences) ==
  LET occasion == OrDefault(preferences.occasion, "casual")
      season == OrDefault(preferences.season, "all-year")
  IN SelectSeq(items, LAMBDA item: MatchesPreferences(item, occasion, season))

\* The composer with its randomness source seeded from the clock: the call at
\* time now starts reading the random values at position now.
generateOutfitRecommendationClockSeeded(items, preferences, rnd, now) ==
  LET occasion == OrDefault(preferences.occasion, "casual")
      season == OrDefault(preferences.season, "all-year")
      style == OrDefault(preferences.style, "comfortable")
      categories == Categorize(AvailableItems(items, preferences))
      outfits == GenerateLoop(categories, occasion, season, style, rnd, now, 0, now)
  IN SelectSeq(outfits, LAMBDA outfit: Len(outfit.items) > 0)

\* generateOutfitRecommendation(clothingItems, preferences), with the values of
\* Math.random() (rnd) and of Date.now() (now) made explicit.
generateOutfitRecommendation(items, preferences, rnd, now) ==
  LET occasion == OrDefault(preferences.occasion, "casual")
      season == OrDefault(preferences.season, "all-year")
      style == OrDefault(preferences.style, "comfortable")
      categories == Categorize(AvailableItems(items, preferences))
      outfits == GenerateLoop(categories, occasion, season, style, rnd, now, 0, 0)
  IN SelectSeq(outfits, LAMBDA outfit: Len(outfit.items) > 0)

(***************************************************************************)
(* Inputs of the composer run.                                             *)
(***************************************************************************)
\* Garments a catalog is drawn from: every slot, by canonical name and by
\* synonym, a category of no slot, and differing occasion and season tags.
ItemKinds ==
  {[name |-> "White Tee", category |-> "shirt", occasions |-> {"casual"}, seasons |-> {"all-year"}],
   [name |-> "Silk Top", category |-> "top", occasions |-> {"formal"}, seasons |-> {"summer"}],
   [name |-> "Blue Jeans", category |-> "jeans", occasions |-> {"casual"}, seasons |-> {"all-year"}],
   [name |-> "Pencil Skirt", category |-> "bottom", occasions |-> {"formal"}, seasons |-> {"summer"}],
   [name |-> "Denim Jacket", category |-> "jacket", occasions |-> {"casual", "formal"}, seasons |-> {"all-year"}],
   [name |-> "Sneakers", category |-> "shoes", occasions |-> {"casual", "formal"}, seasons |-> {"summer"}],
   [name |-> "Belt", category |-> "belt", occasions |-> {"casual"}, seasons |-> {"all-year"}],
   [name |-> "Sun Dress", category |-> "dress", occasions |-> {"casual"}, seasons |-> {"all-year"}]}

\* Garments the wardrobe service's collection is drawn from.
StoredKinds ==
  {kind \in ItemKinds :
     kind.name \in {"White Tee", "Blue Jeans", "Denim Jacket", "Sneakers", "Sun Dress"}}

\* The users (the uuid claim of their tokens).
Users == {"anil", "admin"}

\* `purchasePrice ? parseFloat(purchasePrice) : 0` (the monolithic gateway:
\* `purchasePrice || 0`) for a body whose purchasePrice, when present, is a JSON
\* integer: an absent or zero price gives 0, any other number is kept with its
\* sign.
ParsedPrice(body) ==
  IF "purchasePrice" \in DOMAIN body
  THEN IF body.purchasePrice = 0 THEN 0 ELSE body.purchasePrice
  ELSE 0

\* A stored item: the fields taken from the body of the request (a kind), with
\* its _id and its owner; wearCount and favorite are set by the handler.
MakeItem(kind, id, userId) ==
  [id |-> id, userId |-> userId, name |-> kind.name, category |-> kind.category,
   occasions |-> kind.occasions, seasons |-> kind.seasons,
   purchasePrice |-> ParsedPrice(kind), wearCount |-> 0, favorite |-> FALSE]

\* The catalogs of n items of one owner, the item at position j having _id j.
CatalogsOfLen(n, userId, Kinds) ==
  {[j \in 1..n |-> MakeItem(kinds[j], j, userId)] : kinds \in [1..n -> Kinds]}

\* The catalogs of at most MaxItems items of one owner, of the given kinds.
Catalogs(userId, Kinds) == UNION {CatalogsOfLen(n, userId, Kinds) : n \in 0..MaxItems}

OccasionInputs == {Undefined, "", "formal"}
SeasonInputs == {Undefined, "all-year", "summer"}

PreferenceInputs ==
  [occasion : OccasionInputs, season : SeasonInputs, style : {Undefined}]

\* Sequences of values a randomness source yields (repeated cyclically).
RandomStreams == {<<0>>, <<9>>, <<4, 9>>, <<9, 0, 6>>}

\* Values of Date.now().
Times == {1000, 1001}

\* An object none of whose preference fields is set: `{}`.
EmptyObject == [occasion |-> Undefined, season |-> Undefined, style |-> Undefined]

\* No call made yet.
NoCall == [made |-> FALSE, now |-> 0, outfits |-> <<>>]

\* The composer run at rest.
ComposerIdle ==
  /\ cItems = <<>>
  /\ cPrefs = EmptyObject
  /\ cRnd = <<0>>
  /\ cFirst = NoCall
  /\ cSecond = NoCall

(***************************************************************************)
(* Requests and responses.                                                 *)
(***************************************************************************)
\* The Authorization header of a request: whether it carries a token, whether
\* jwt.verify accepts the token, and the uuid claim of an accepted token.
Tokens ==
  {[present |-> FALSE, valid |-> FALSE, uuid |-> Undefined],
   [present |-> TRUE, valid |-> FALSE, uuid |-> Undefined]}
  \cup {[present |-> TRUE, valid |-> TRUE, uuid |-> u] : u \in Users}

\* The weather summary of a request body: absent, or with a temperature.
NoWeather == [given |-> FALSE, temperature |-> 0]
ColdWeather == [given |-> TRUE, temperature |-> 50]
WarmWeather == [given |-> TRUE, temperature |-> 80]

\* Bodies of a generation request: the key `preferences` (EmptyObject when the
\* key is absent) and the top-level keys `occasion` and `weather`. The first
\* three are of the shape POST /generate reads, the last three of the shape the
\* README's client and the monolithic gateway use.
GenerateBodies ==
  {[preferences |-> p, occasion |-> Undefined, weather |-> NoWeather] :
     p \in {EmptyObject,
            [occasion |-> "formal", season |-> Undefined, style |-> Undefined],
            [occasion |-> "", season |-> "summer", style |-> Undefined]}}
  \cup {[preferences |-> EmptyObject, occasion |-> "formal", weather |-> NoWeather],
        [preferences |-> EmptyObject, occasion |-> Undefined, weather |-> ColdWeather],
        [preferences |-> EmptyObject, occasion |-> "formal", weather |-> WarmWeather]}

\* No request served yet.
NoRequest ==
  [route |-> "none", token |-> [present |-> FALSE, valid |-> FALSE, uuid |-> Undefined],
   body |-> [preferences |-> EmptyObject, occasion |-> Undefined, weather |-> NoWeather]]

\* An :id that is no ObjectId string: `new ObjectId(id)` throws.
MalformedId == 0

\* No PUT between its awaits.
NoPendingPut == [active |-> FALSE, token |-> NoRequest.token, id |-> MalformedId,
                 updates |-> <<>>]

\* A response: the HTTP status, the keys of the JSON body, and their values.
NoResponse ==
  [status |-> 0, keys |-> {}, success |-> FALSE, outfits |-> <<>>, items |-> <<>>,
   error |-> Undefined, fallback |-> FALSE]

\* res.status(status).json({ error })
ErrorResponse(status, error) ==
  [NoResponse EXCEPT !.status = status, !.keys = {"error"}, !.error = error]

\* The middleware with the jwt.verify step left out: any token present passes.
authenticateTokenPresenceOnly(token, verifies) ==
  IF ~token.present THEN 401 ELSE 0

\* The middleware authenticateToken (the same in every service): the status it
\* answers with, or 0 when it calls next(). verifies: whether jwt.verify
\* accepts the token.
authenticateToken(token, verifies) ==
  IF ~token.present THEN 401
  ELSE IF ~verifies THEN 403
  ELSE 0

(***************************************************************************)
(* Wardrobe service: GET /items.                                           *)
(***************************************************************************)
\* .sort({ createdAt: -1 }) of a list held in insertion order.
SortByCreatedAtDesc(seq) == [j \in 1..Len(seq) |-> seq[Len(seq) + 1 - j]]

\* The HTTP response of GET /items without query parameters. connected: the
\* value of db as a condition; with db undefined db.collection throws and the
\* catch block answers 500.
GetItems(collection, connected, token, verifies) ==
  LET auth == authenticateToken(token, verifies)
      found == SortByCreatedAtDesc(
                 SelectSeq(collection, LAMBDA item: item.userId = token.uuid))
  IN IF auth # 0 THEN [status |-> auth, success |-> FALSE, items |-> <<>>]
     ELSE IF ~connected THEN [status |-> 500, success |-> FALSE, items |-> <<>>]
     ELSE [status |-> 200, success |-> TRUE, items |-> found]

(***************************************************************************)
(* Outfit service: POST /generate.                                         *)
(***************************************************************************)
\* No axios.get settled yet.
NoReply == [kind |-> "none", code |-> Undefined, status |-> 0,
            success |-> FALSE, items |-> <<>>]

\* How `await axios.get(...)` settles on an HTTP response: it resolves on a
\* 2xx status and rejects, with error.response set, on any other.
AxiosSettle(http) ==
  IF http.status >= 200 /\ http.status < 300
  THEN [kind |-> "resolved", code |-> Undefined, status |-> http.status,
        success |-> http.success, items |-> http.items]
  ELSE [kind |-> "rejected",
        code |-> IF http.status >= 500 THEN "ERR_BAD_RESPONSE" ELSE "ERR_BAD_REQUEST",
        status |-> http.status, success |-> FALSE, items |-> <<>>]

\* How `await axios.get(...)` settles when no HTTP response arrives.
AxiosFail(code) ==
  [kind |-> "rejected", code |-> code, status |-> 0, success |-> FALSE, items |-> <<>>]

\* Failures of the connection to the wardrobe service.
NetworkErrors == {"ECONNREFUSED", "ENOTFOUND", "ETIMEDOUT"}

\* The catch block of POST /generate.
GenerateCatch(code) ==
  IF code = "ECONNREFUSED" \/ code = "ENOTFOUND"
  THEN [NoResponse EXCEPT !.status = 503, !.keys = {"error", "fallback"},
                          !.error = "Wardrobe service temporarily unavailable",
                          !.fallback = TRUE]
  ELSE ErrorResponse(500, "Failed to generate outfit recommendations")

\* Whether the handler, having awaited settled, goes on to call the composer.
CallsComposer(settled) ==
  settled.kind = "resolved" /\ settled.success /\ Len(settled.items) # 0

\* The handler of POST /generate after the await: the response it sends.
GenerateRespond(body, settled, rnd, now) ==
  LET preferences == body.preferences
      clothingItemsFetched == settled.items
  IN IF settled.kind = "rejected" THEN GenerateCatch(settled.code)
     ELSE IF ~settled.success
     THEN ErrorResponse(400, "Failed to fetch wardrobe items")
     ELSE IF Len(clothingItemsFetched) = 0
     THEN [NoResponse EXCEPT !.status = 200,
                             !.keys = {"success", "outfits", "message"},
                             !.success = TRUE]
     ELSE [NoResponse EXCEPT
             !.status = 200,
             !.keys = {"success", "count", "outfits", "preferences",
                       "wardrobeItemsCount"},
             !.success = TRUE,
             !.outfits = generateOutfitRecommendation(clothingItemsFetched,
                                                      preferences, rnd, now)]

\* POST /generate keeping the catalog of the request served before: when a
\* fetched catalog is at hand no axios.get is sent.
GenerateStartReusingReply(token, body) ==
  /\ deployment = "microservices"
  /\ pc \in {"idle", "done"}
  /\ request' = [route |-> "POST /generate", token |-> token, body |-> body]
  /\ composed' = 0
  /\ cancelled' = FALSE
  /\ LET auth == authenticateToken(token, token.valid)
     IN IF auth # 0
        THEN /\ response' = ErrorResponse(auth, IF auth = 401
                                                THEN "Access token required"
                                                ELSE "Invalid or expired token")
             /\ reply' = NoReply
             /\ fetches' = 0
             /\ pc' = "done"
        ELSE IF reply.kind = "resolved"
        THEN /\ response' = NoResponse
             /\ reply' = reply
             /\ fetches' = 0
             /\ pc' = "settled"
        ELSE /\ response' = NoResponse
             /\ reply' = NoReply
             /\ fetches' = 1
             /\ pc' = "fetching"
  /\ UNCHANGED <<edgeVars, composerVars, deployment, wardrobeVars, monolithVars>>

\* POST /generate up to the await: authenticateToken, then axios.get is sent.
GenerateStart(token, body) ==
  /\ deployment = "microservices"
  /\ pc \in {"idle", "done"}
  /\ request' = [route |-> "POST /generate", token |-> token, body |-> body]
  /\ reply' = NoReply
  /\ composed' = 0
  /\ cancelled' = FALSE
  /\ LET auth == authenticateToken(token, token.valid)
     IN IF auth # 0
        THEN /\ response' = ErrorResponse(auth, IF auth = 401
                                                THEN "Access token required"
                                                ELSE "Invalid or expired token")
             /\ fetches' = 0
             /\ pc' = "done"
        ELSE /\ response' = NoResponse
             /\ fetches' = 1
             /\ pc' = "fetching"
  /\ UNCHANGED <<edgeVars, composerVars, deployment, wardrobeVars, monolithVars>>

\* The wardrobe service serves the GET /items of the request. verifies: whether
\* the wardrobe service's jwt.verify (its own JWT_SECRET, its own clock)
\* accepts the token the outfit service accepted.
WardrobeServes(verifies) ==
  /\ pc = "fetching"
  /\ reply' = AxiosSettle(GetItems(clothing_items, db, request.token, verifies))
  /\ pc' = "settled"
  /\ UNCHANGED <<request, response, fetches, composed, cancelled>>
  /\ UNCHANGED <<edgeVars, composerVars, deployment, wardrobeVars, monolithVars>>

\* The connection to the wardrobe service fails.
FetchFails(code) ==
  /\ pc = "fetching"
  /\ reply' = AxiosFail(code)
  /\ pc' = "settled"
  /\ UNCHANGED <<request, response, fetches, composed, cancelled>>
  /\ UNCHANGED <<edgeVars, composerVars, deployment, wardrobeVars, monolithVars>>

\* The client closes the connection of its request while axios.get is pending.
\* The handler listens to no 'close' or 'aborted' event of req and hands
\* axios.get no signal: nothing of the handler's state changes.
ClientCancels ==
  /\ deployment = "microservices"
  /\ pc = "fetching"
  /\ ~cancelled
  /\ cancelled' = TRUE
  /\ UNCHANGED <<pc, request, reply, response, fetches, composed>>
  /\ UNCHANGED <<edgeVars, composerVars, deployment, wardrobeVars, monolithVars>>

\* POST /generate from the await on.
GenerateFinish(rnd, now) ==
  /\ pc = "settled"
  /\ response' = GenerateRespond(request.body, reply, rnd, now)
  /\ composed' = IF CallsComposer(reply) THEN composed + 1 ELSE composed
  /\ pc' = "done"
  /\ UNCHANGED <<request, reply, fetches, cancelled>>
  /\ UNCHANGED <<edgeVars, composerVars, deployment, wardrobeVars, monolithVars>>

(***************************************************************************)
(* Monolithic gateway: the clothingItems array, POST /wardrobe/items and   *)
(* POST /outfits/generate.                                                 *)
(***************************************************************************)
\* The initial value of `let clothingItems`.
SeedClothingItems ==
  <<[id |-> "507f1f77bcf86cd799439011", userId |-> "anil",
     name |-> "Blue Denim Jacket", category |-> "outerwear",
     occasions |-> {"casual"}, seasons |-> {"spring", "fall"}],
    [id |-> "507f1f77bcf86cd799439012", userId |-> "anil",
     name |-> "White Cotton T-Shirt", category |-> "top",
     occasions |-> {"casual", "sports"}, seasons |-> {"all-year"}]>>

\* Math.random().toString(36).substr(2, 9), r the random value.
RandomId(r) == <<"id", r>>

\* The response of the monolithic POST /outfits/generate once the token passed.
MonoGenerateRespond(items, uuid, body, rnd) ==
  LET occasion == body.occasion
      weather == body.weather
      userItems == SelectSeq(items, LAMBDA item: item.userId = uuid)
      tops == SelectSeq(userItems, LAMBDA item: item.category = "top")
      outerwear == SelectSeq(userItems, LAMBDA item: item.category = "outerwear")
      hasTop == Len(tops) > 0
      items1 == IF hasTop THEN <<RandomElementOf(tops, Random(rnd, 1))>> ELSE <<>>
      k2 == IF hasTop THEN 2 ELSE 1
      addOuterwear == Len(outerwear) > 0 /\ weather.given /\ weather.temperature < 70
      items2 == IF addOuterwear
                THEN Append(items1, RandomElementOf(outerwear, Random(rnd, k2)))
                ELSE items1
      outfit == [id |-> RandomId(Random(rnd, 0)),
                 occasion |-> IF Falsy(occasion) THEN "casual" ELSE occasion,
                 weather |-> IF weather.given THEN weather
                             ELSE [given |-> TRUE, temperature |-> 72],
                 items |-> items2,
                 confidence |-> 850]
  IN IF Len(userItems) = 0
     THEN ErrorResponse(400, "No clothing items found. Add some items first!")
     ELSE [NoResponse EXCEPT !.status = 200,
                             !.keys = {"success", "message", "outfit", "tips"},
                             !.success = TRUE,
                             !.outfits = <<outfit>>]

\* The monolithic POST /outfits/generate.
MonoGenerate(token, body, rnd) ==
  /\ deployment = "monolith"
  /\ request' = [route |-> "POST /outfits/generate", token |-> token, body |-> body]
  /\ LET auth == authenticateToken(token, token.valid)
     IN response' = IF auth = 401 THEN ErrorResponse(401, "Access token required")
                    ELSE IF auth = 403 THEN ErrorResponse(403, "Invalid token")
                    ELSE MonoGenerateRespond(clothingItems, token.uuid, body, rnd)
  /\ UNCHANGED <<pc, reply, fetches, composed, cancelled, clothingItems>>
  /\ UNCHANGED <<edgeVars, composerVars, deployment, wardrobeVars>>

\* The monolithic POST /wardrobe/items with a name and a category, by an
\* authenticated user; r is the random value its id is made from.
MonoAddItem(uuid, kind, r) ==
  /\ deployment = "monolith"
  /\ Len(clothingItems) < MaxItems
  /\ clothingItems' = Append(clothingItems, MakeItem(kind, RandomId(r), uuid))
  /\ request' = [route |-> "POST /wardrobe/items",
                 token |-> [present |-> TRUE, valid |-> TRUE, uuid |-> uuid],
                 body |-> NoRequest.body]
  /\ response' = [NoResponse EXCEPT !.status = 201,
                                    !.keys = {"success", "message", "item"},
                                    !.success = TRUE]
  /\ UNCHANGED <<pc, reply, fetches, composed, cancelled>>
  /\ UNCHANGED <<edgeVars, composerVars, deployment, wardrobeVars>>

(***************************************************************************)
(* Outfit generation: either deployment serving generation requests.       *)
(***************************************************************************)
(***************************************************************************)
(* The services around the outfit and wardrobe services, at rest.          *)
(***************************************************************************)
\* The services the gateway is configured with (SERVICES), in probe order.
Services == <<"auth", "wardrobe", "outfit", "profile">>

\* No proxyRequest call yet.
NoProxy ==
  [pc |-> "idle", token |-> NoRequest.token, body |-> NoRequest.body,
   calls |-> 0, sent |-> 0, failure |-> Undefined, response |-> NoResponse]

\* No GET /health request yet: no probe made, no response sent.
NoHealth ==
  [index |-> 0, healthChecks |-> <<>>, outcomes |-> <<>>,
   probes |-> [j \in 1..Len(Services) |-> 0], sent |-> 0, status |-> 0]

\* No token in a response.
NoToken == [userId |-> 0, email |-> Undefined]

\* No login or registration answered yet.
NoAuthReply ==
  [route |-> "none", email |-> Undefined, password |-> Undefined, status |-> 0,
   token |-> NoToken]

\* No profile request answered yet.
NoProfileReply == [route |-> "none", userId |-> Undefined, status |-> 0, profile |-> <<>>]

\* The gateway, the auth service and the profile service at rest, their stores
\* empty.
EdgeIdle ==
  /\ gwProxy = NoProxy
  /\ gwHealth = NoHealth
  /\ authDb = FALSE
  /\ authUsers = <<>>
  /\ users = <<>>
  /\ registering = <<>>
  /\ authReply = NoAuthReply
  /\ user_profiles = <<>>
  /\ profilePending = <<>>
  /\ profileReply = NoProfileReply

\* The outfit service at rest.
OutfitIdle ==
  /\ pc = "idle"
  /\ request = NoRequest
  /\ reply = NoReply
  /\ response = NoResponse
  /\ fetches = 0
  /\ composed = 0
  /\ cancelled = FALSE

\* Nothing deployed: the state of the services during a composer run.
ServicesIdle ==
  /\ deployment = "none"
  /\ clothing_items = <<>>
  /\ db = FALSE
  /\ nextObjectId = 1
  /\ pendingPut = NoPendingPut
  /\ OutfitIdle
  /\ EdgeIdle
  /\ clothingItems = <<>>

\* Values of Math.random() an id is made from.
RandomValues == {0, 9}

Init ==
  /\ ComposerIdle
  /\ OutfitIdle
  /\ EdgeIdle
  /\ clothingItems = SeedClothingItems
  /\ pendingPut = NoPendingPut
  /\ \/ /\ deployment = "microservices"
        /\ db = TRUE
        /\ clothing_items \in Catalogs("anil", StoredKinds)
     \/ /\ deployment = "microservices"
        /\ db = FALSE
        /\ clothing_items = <<>>
     \/ /\ deployment = "monolith"
        /\ clothing_items = <<>>
        /\ db = FALSE
  /\ nextObjectId = Len(clothing_items) + 1

Next ==
  \/ \E token \in Tokens, body \in GenerateBodies : GenerateStart(token, body)
  \/ \E verifies \in BOOLEAN : WardrobeServes(verifies)
  \/ \E code \in NetworkErrors : FetchFails(code)
  \/ \E rnd \in RandomStreams, now \in Times : GenerateFinish(rnd, now)
  \/ \E token \in Tokens, body \in GenerateBodies, rnd \in RandomStreams :
       MonoGenerate(token, body, rnd)
  \/ \E uuid \in Users, kind \in ItemKinds, r \in RandomValues :
       MonoAddItem(uuid, kind, r)

Spec == Init /\ [][Next]_vars

(***************************************************************************)
(* Wardrobe service: POST /items, PUT /items/:id, DELETE /items/:id.       *)
(***************************************************************************)
\* Bodies of PUT /items/:id: the fields to set. The key "id" stands for _id.
UpdateBodies ==
  {[id |-> MalformedId, category |-> "jeans"]} \cup {[userId |-> u] : u \in Users}

\* `delete updates._id`
WithoutId(updates) == [f \in DOMAIN updates \ {"id"} |-> updates[f]]

\* { $set: updates } on a document.
SetFields(item, updates) ==
  [f \in DOMAIN item \cup DOMAIN updates |->
     IF f \in DOMAIN updates THEN updates[f] ELSE item[f]]

\* The positions of the documents matching { _id: id, userId: uuid }.
MatchIdAndUser(collection, id, uuid) ==
  {j \in 1..Len(collection) : collection[j].id = id /\ collection[j].userId = uuid}

\* The positions of the documents matching { _id: id }.
MatchId(collection, id) == {j \in 1..Len(collection) : collection[j].id = id}

\* The first of a non-empty set of positions.
First(positions) == CHOOSE j \in positions : \A k \in positions : j <= k

\* updateOne(filter, { $set: updates }), matched being the positions the filter
\* matches.
UpdateOne(collection, matched, updates) ==
  IF matched = {} THEN collection
  ELSE [collection EXCEPT ![First(matched)] = SetFields(@, updates)]

\* deleteOne(filter), matched being the positions the filter matches.
DeleteOne(collection, matched) ==
  IF matched = {} THEN collection
  ELSE [j \in 1..(Len(collection) - 1) |->
          IF j < First(matched) THEN collection[j] ELSE collection[j + 1]]

\* The error response of a handler of the wardrobe service whose token passed:
\* 500 from the catch block when db is undefined or the :id is malformed.
\* Status 0: no error.
WardrobeThrows(id) ==
  IF ~db \/ id = MalformedId THEN 500 ELSE 0

\* The response authenticateToken sends when it does not call next().
AuthResponse(auth) ==
  ErrorResponse(auth, IF auth = 401 THEN "Access token required"
                      ELSE "Invalid or expired token")

\* GET /items (without query parameters) of the wardrobe service.
WardrobeGet(token) ==
  /\ deployment = "microservices"
  /\ request' = [route |-> "GET /items", token |-> token, body |-> <<>>]
  /\ LET http == GetItems(clothing_items, db, token, token.valid)
     IN response' = IF http.status = 200
                    THEN [NoResponse EXCEPT !.status = 200,
                                            !.keys = {"success", "count", "items"},
                                            !.success = TRUE,
                                            !.items = http.items]
                    ELSE IF http.status = 500
                    THEN ErrorResponse(500, "Failed to retrieve items")
                    ELSE AuthResponse(http.status)
  /\ UNCHANGED <<pc, reply, fetches, composed, cancelled>>
  /\ UNCHANGED <<edgeVars, composerVars, deployment, wardrobeVars, monolithVars>>

\* POST /items with a body describing a garment of the given kind.
WardrobePost(token, kind) ==
  /\ deployment = "microservices"
  /\ nextObjectId <= MaxItems
  /\ request' = [route |-> "POST /items", token |-> token, body |-> kind]
  /\ LET auth == authenticateToken(token, token.valid)
         clothingItem == MakeItem(kind, nextObjectId, token.uuid)
     IN IF auth # 0
        THEN /\ response' = AuthResponse(auth)
             /\ UNCHANGED <<clothing_items, nextObjectId>>
        ELSE IF ~db
        THEN /\ response' = ErrorResponse(500, "Failed to add item")
             /\ UNCHANGED <<clothing_items, nextObjectId>>
        ELSE /\ clothing_items' = Append(clothing_items, clothingItem)
             /\ nextObjectId' = nextObjectId + 1
             /\ response' = [NoResponse EXCEPT !.status = 200,
                                               !.keys = {"success", "item"},
                                               !.success = TRUE,
                                               !.items = <<clothingItem>>]
  /\ UNCHANGED <<db, pendingPut, pc, reply, fetches, composed, cancelled>>
  /\ UNCHANGED <<edgeVars, composerVars, deployment, monolithVars>>

\* PUT /items/:id up to its second await: authenticateToken and updateOne.
WardrobePutUpdate(token, id, body) ==
  /\ deployment = "microservices"
  /\ ~pendingPut.active
  /\ request' = [route |-> "PUT /items/:id", token |-> token,
                 body |-> [id |-> id, updates |-> body]]
  /\ LET auth == authenticateToken(token, token.valid)
         updates == WithoutId(body)
         matched == MatchIdAndUser(clothing_items, id, token.uuid)
     IN IF auth # 0
        THEN /\ response' = AuthResponse(auth)
             /\ UNCHANGED <<clothing_items, pendingPut>>
        ELSE IF WardrobeThrows(id) # 0
        THEN /\ response' = ErrorResponse(500, "Failed to update item")
             /\ UNCHANGED <<clothing_items, pendingPut>>
        ELSE IF matched = {}
        THEN /\ response' = ErrorResponse(404, "Item not found")
             /\ UNCHANGED <<clothing_items, pendingPut>>
        ELSE /\ clothing_items' = UpdateOne(clothing_items, matched, updates)
             /\ pendingPut' = [active |-> TRUE, token |-> token, id |-> id,
                               updates |-> body]
             /\ response' = NoResponse
  /\ UNCHANGED <<db, nextObjectId, pc, reply, fetches, composed, cancelled>>
  /\ UNCHANGED <<edgeVars, composerVars, deployment, monolithVars>>

\* PUT /items/:id from its second await on: findOne({ _id }) and the response.
WardrobePutFind ==
  /\ deployment = "microservices"
  /\ pendingPut.active
  /\ request' = [route |-> "PUT /items/:id", token |-> pendingPut.token,
                 body |-> [id |-> pendingPut.id, updates |-> pendingPut.updates]]
  /\ LET found == MatchId(clothing_items, pendingPut.id)
     IN response' = [NoResponse EXCEPT
                       !.status = 200,
                       !.keys = {"success", "item"},
                       !.success = TRUE,
                       !.items = IF found = {} THEN <<>>
                                 ELSE <<clothing_items[First(found)]>>]
  /\ pendingPut' = NoPendingPut
  /\ UNCHANGED <<clothing_items, db, nextObjectId, pc, reply, fetches, composed, cancelled>>
  /\ UNCHANGED <<edgeVars, composerVars, deployment, monolithVars>>

\* DELETE /items/:id.
WardrobeDelete(token, id) ==
  /\ deployment = "microservices"
  /\ request' = [route |-> "DELETE /items/:id", token |-> token,
                 body |-> [id |-> id, updates |-> <<>>]]
  /\ LET auth == authenticateToken(token, token.valid)
         matched == MatchIdAndUser(clothing_items, id, token.uuid)
     IN IF auth # 0
        THEN /\ response' = AuthResponse(auth)
             /\ UNCHANGED clothing_items
        ELSE IF WardrobeThrows(id) # 0
        THEN /\ response' = ErrorResponse(500, "Failed to delete item")
             /\ UNCHANGED clothing_items
        ELSE IF matched = {}
        THEN /\ response' = ErrorResponse(404, "Item not found")
             /\ UNCHANGED clothing_items
        ELSE /\ clothing_items' = DeleteOne(clothing_items, matched)
             /\ response' = [NoResponse EXCEPT !.status = 200,
                                               !.keys = {"success", "message"},
                                               !.success = TRUE]
  /\ UNCHANGED <<db, nextObjectId, pendingPut, pc, reply, fetches, composed, cancelled>>
  /\ UNCHANGED <<edgeVars, composerVars, deployment, monolithVars>>

\* Garments the bodies of POST /items describe.
PostedKinds == {kind \in ItemKinds : kind.name = "White Tee"}

\* The :id parameters of requests: every _id insertOne can have generated, and
\* a malformed one.
IdParams == {MalformedId} \cup (1..MaxItems)

WardrobeInit ==
  /\ ComposerIdle
  /\ OutfitIdle
  /\ EdgeIdle
  /\ clothingItems = <<>>
  /\ deployment = "microservices"
  /\ db \in BOOLEAN
  /\ clothing_items = <<>>
  /\ nextObjectId = 1
  /\ pendingPut = NoPendingPut

WardrobeNext ==
  \/ \E token \in Tokens : WardrobeGet(token)
  \/ \E token \in Tokens, kind \in PostedKinds : WardrobePost(token, kind)
  \/ \E token \in Tokens, id \in IdParams, body \in UpdateBodies :
       WardrobePutUpdate(token, id, body)
  \/ WardrobePutFind
  \/ \E token \in Tokens, id \in IdParams : WardrobeDelete(token, id)

SpecWardrobe == WardrobeInit /\ [][WardrobeNext]_vars

(***************************************************************************)
(* Session: the outfit service serving successive POST /generate requests, *)
(* clients adding items to their wardrobes between the requests.           *)
(***************************************************************************)
\* Garments added during a session.
SessionKinds == {kind \in ItemKinds : kind.name \in {"White Tee", "Blue Jeans"}}

\* Bodies of the generation requests of a session.
SessionBodies ==
  {body \in GenerateBodies :
     body.occasion = Undefined /\ ~body.weather.given /\ body.preferences.season = Undefined}

\* A client's POST /items reaching the wardrobe service while the outfit service
\* has no request in progress.
PostBetweenRequests(token, kind) ==
  /\ pc \in {"idle", "done"}
  /\ WardrobePost(token, kind)

SessionInit ==
  /\ ComposerIdle
  /\ OutfitIdle
  /\ EdgeIdle
  /\ clothingItems = <<>>
  /\ deployment = "microservices"
  /\ db = TRUE
  /\ clothing_items = <<>>
  /\ nextObjectId = 1
  /\ pendingPut = NoPendingPut

SessionNext ==
  \/ \E token \in Tokens, body \in SessionBodies : GenerateStart(token, body)
  \/ \E verifies \in BOOLEAN : WardrobeServes(verifies)
  \/ \E code \in NetworkErrors : FetchFails(code)
  \/ ClientCancels
  \/ \E rnd \in RandomStreams, now \in Times : GenerateFinish(rnd, now)
  \/ \E token \in Tokens, kind \in SessionKinds : PostBetweenRequests(token, kind)

SpecSession == SessionInit /\ [][SessionNext]_vars

(***************************************************************************)
(* Attributes: the wardrobe service storing prices and wear counts.        *)
(***************************************************************************)
\* The fields of record extra added to (or replacing those of) record base.
Merge(base, extra) ==
  [f \in DOMAIN base \cup DOMAIN extra |-> IF f \in DOMAIN extra THEN extra[f] ELSE base[f]]

\* Bodies of POST /items that name a price, a wear count and a favorite flag.
PricedBodies ==
  PostedKinds
  \cup {Merge(kind, [purchasePrice |-> 25, wearCount |-> 7, favorite |-> TRUE]) :
          kind \in PostedKinds}
  \cup {Merge(kind, [purchasePrice |-> 0 - 5]) : kind \in PostedKinds}

\* Bodies of PUT /items/:id that set a wear count.
AttributeUpdates == {[wearCount |-> 0 - 1]}

\* Tokens of the requests: none, and a valid one.
OwnerTokens == {token \in Tokens : ~token.present \/ token.uuid = "anil"}

AttributesNext ==
  \/ \E token \in OwnerTokens, body \in PricedBodies : WardrobePost(token, body)
  \/ \E token \in OwnerTokens, id \in IdParams, body \in AttributeUpdates :
       WardrobePutUpdate(token, id, body)
  \/ WardrobePutFind

SpecAttributes == WardrobeInit /\ [][AttributesNext]_vars

ComposeInit ==
  /\ cItems \in Catalogs("anil", ItemKinds)
  /\ cPrefs \in PreferenceInputs
  /\ cRnd \in RandomStreams
  /\ cFirst = NoCall
  /\ cSecond = NoCall
  /\ ServicesIdle

\* A call of the composer at time now.
Compose(now) ==
  /\ ~cFirst.made
  /\ cFirst' = [made |-> TRUE, now |-> now,
                outfits |-> generateOutfitRecommendation(cItems, cPrefs, cRnd, now)]
  /\ UNCHANGED <<cItems, cPrefs, cRnd, cSecond>>
  /\ UNCHANGED <<edgeVars, deployment, wardrobeVars, outfitVars, monolithVars>>

\* A second call on the same items and preferences, the randomness source
\* yielding the same values, at time now.
ComposeAgain(now) ==
  /\ cFirst.made
  /\ ~cSecond.made
  /\ cSecond' = [made |-> TRUE, now |-> now,
                 outfits |-> generateOutfitRecommendation(cItems, cPrefs, cRnd, now)]
  /\ UNCHANGED <<cItems, cPrefs, cRnd, cFirst>>
  /\ UNCHANGED <<edgeVars, deployment, wardrobeVars, outfitVars, monolithVars>>

ComposeNext ==
  \/ \E now \in Times : Compose(now)
  \/ \E now \in Times : ComposeAgain(now)

SpecCompose == ComposeInit /\ [][ComposeNext]_vars

(***************************************************************************)
(* API gateway: proxyRequest, serving POST /outfits/generate through the   *)
(* outfit service.                                                         *)
(***************************************************************************)
\* How the gateway's `await axios(config)` ended: on an HTTP response of the
\* downstream service (of any status), or on a failure with an error code.
Answered(http) == [kind |-> "response", http |-> http, code |-> Undefined]
Failed(code) == [kind |-> "failure", http |-> NoResponse, code |-> code]

\* proxyRequest from the await on: the response the gateway sends. A 2xx
\* response is relayed by the try block, any other by the first branch of the
\* catch block; a failure without response is told apart by error.code.
proxyRequest(settled) ==
  IF settled.kind = "response"
  THEN settled.http
  ELSE IF settled.code = "ECONNREFUSED"
       THEN [NoResponse EXCEPT !.status = 503, !.keys = {"error", "service", "message"},
                               !.error = "Service temporarily unavailable"]
       ELSE [NoResponse EXCEPT !.status = 500, !.keys = {"error", "message"},
                               !.error = "Gateway error"]

\* POST /outfits/generate arrives at the gateway: proxyRequest builds the
\* config (the Authorization header and the body as received) and calls axios.
GatewayProxy(token, body) ==
  /\ deployment = "microservices"
  /\ gwProxy.pc = "idle"
  /\ gwProxy' = [gwProxy EXCEPT !.pc = "proxying", !.token = token, !.body = body,
                                !.calls = @ + 1]
  /\ UNCHANGED <<gwHealth, authVars, profileVars>>
  /\ UNCHANGED <<composerVars, deployment, wardrobeVars, outfitVars, monolithVars>>

\* The gateway's call reaches the outfit service: POST /generate starts.
OutfitReceives ==
  /\ gwProxy.pc = "proxying"
  /\ pc = "idle"
  /\ GenerateStart(gwProxy.token, gwProxy.body)

\* The outfit service has answered: the gateway sends its response.
GatewayRelays ==
  /\ gwProxy.pc = "proxying"
  /\ pc = "done"
  /\ gwProxy' = [gwProxy EXCEPT !.pc = "done", !.sent = @ + 1,
                                !.response = proxyRequest(Answered(response))]
  /\ UNCHANGED <<gwHealth, authVars, profileVars>>
  /\ UNCHANGED <<composerVars, deployment, wardrobeVars, outfitVars, monolithVars>>

\* The gateway's call fails without a response of the outfit service.
GatewayCallFails(code) ==
  /\ gwProxy.pc = "proxying"
  /\ pc = "idle"
  /\ gwProxy' = [gwProxy EXCEPT !.pc = "done", !.sent = @ + 1, !.failure = code,
                                !.response = proxyRequest(Failed(code))]
  /\ UNCHANGED <<gwHealth, authVars, profileVars>>
  /\ UNCHANGED <<composerVars, deployment, wardrobeVars, outfitVars, monolithVars>>

\* The microservices deployed, the wardrobe of one user stored or the database
\* of the wardrobe service not connected.
GatewayInit ==
  /\ ComposerIdle
  /\ OutfitIdle
  /\ EdgeIdle
  /\ deployment = "microservices"
  /\ clothingItems = <<>>
  /\ pendingPut = NoPendingPut
  /\ \/ db = TRUE /\ clothing_items \in Catalogs("anil", StoredKinds)
     \/ db = FALSE /\ clothing_items = <<>>
  /\ nextObjectId = Len(clothing_items) + 1

GatewayNext ==
  \/ \E token \in Tokens, body \in GenerateBodies : GatewayProxy(token, body)
  \/ OutfitReceives
  \/ \E verifies \in BOOLEAN : WardrobeServes(verifies)
  \/ \E code \in NetworkErrors : FetchFails(code)
  \/ \E rnd \in RandomStreams, now \in Times : GenerateFinish(rnd, now)
  \/ GatewayRelays
  \/ \E code \in NetworkErrors : GatewayCallFails(code)

SpecGateway == GatewayInit /\ [][GatewayNext]_vars

(***************************************************************************)
(* API gateway: GET /health.                                               *)
(***************************************************************************)
\* How a probe `axios.get(url + '/health', { timeout: 5000 })` ends: on a 2xx
\* response, on a response of another status, on a refused connection, or on
\* no answer within the timeout.
ProbeOutcomes == {"2xx", "5xx", "ECONNREFUSED", "ECONNABORTED"}

\* The entry a probe leaves in healthChecks: the try block's when axios.get
\* resolves, the catch block's when it rejects.
HealthCheck(name, outcome) ==
  [name |-> name, status |-> IF outcome = "2xx" THEN "healthy" ELSE "unhealthy"]

\* The for loop with its try/catch moved around the loop: a failed probe ends
\* the loop.
NextProbeStoppingAtFailure(index, outcome) ==
  IF outcome = "2xx" THEN index + 1 ELSE Len(Services) + 1

\* The for loop over Object.entries(SERVICES): the try/catch is inside the
\* body, so the loop goes on to the next service whatever the probe's outcome.
NextProbe(index, outcome) == index + 1

\* `Object.values(healthChecks).every(service => service.status === 'healthy')`
AllHealthy(healthChecks) ==
  \A j \in 1..Len(healthChecks) : healthChecks[j].status = "healthy"

\* GET /health arrives: healthChecks = {} and the loop is entered.
HealthStart ==
  /\ deployment = "microservices"
  /\ gwHealth.index = 0
  /\ gwHealth' = [gwHealth EXCEPT !.index = 1]
  /\ UNCHANGED <<gwProxy, authVars, profileVars>>
  /\ UNCHANGED <<composerVars, deployment, wardrobeVars, outfitVars, monolithVars>>

\* One iteration of the loop: the probe of the service at index is sent and
\* ends with outcome, at the latest when its timeout expires.
HealthProbe(outcome) ==
  /\ gwHealth.index \in 1..Len(Services)
  /\ gwHealth' = [gwHealth EXCEPT
       !.probes[gwHealth.index] = @ + 1,
       !.outcomes = Append(@, outcome),
       !.healthChecks = Append(@, HealthCheck(Services[gwHealth.index], outcome)),
       !.index = NextProbe(gwHealth.index, outcome)]
  /\ UNCHANGED <<gwProxy, authVars, profileVars>>
  /\ UNCHANGED <<composerVars, deployment, wardrobeVars, outfitVars, monolithVars>>

\* After the loop: allHealthy is computed and the response is sent.
HealthRespond ==
  /\ gwHealth.index = Len(Services) + 1
  /\ gwHealth.sent = 0
  /\ gwHealth' = [gwHealth EXCEPT
       !.sent = @ + 1,
       !.status = IF AllHealthy(gwHealth.healthChecks) THEN 200 ELSE 503]
  /\ UNCHANGED <<gwProxy, authVars, profileVars>>
  /\ UNCHANGED <<composerVars, deployment, wardrobeVars, outfitVars, monolithVars>>

\* The gateway started, no request served and the stores of the services
\* behind it empty.
HealthInit ==
  /\ ComposerIdle
  /\ OutfitIdle
  /\ EdgeIdle
  /\ deployment = "microservices"
  /\ clothing_items = <<>>
  /\ db = FALSE
  /\ nextObjectId = 1
  /\ pendingPut = NoPendingPut
  /\ clothingItems = <<>>

HealthNext ==
  \/ HealthStart
  \/ \E outcome \in ProbeOutcomes : HealthProbe(outcome)
  \/ HealthRespond

\* Every probe ends, by its answer or by its timeout, and the handler is
\* resumed by the event loop after each.
SpecHealth ==
  /\ HealthInit
  /\ [][HealthNext]_vars
  /\ WF_vars(\E outcome \in ProbeOutcomes : HealthProbe(outcome))
  /\ WF_vars(HealthRespond)

(***************************************************************************)
(* Auth service: POST /login. Monolithic gateway: POST /auth/login and     *)
(* POST /auth/register over the in-memory users array.                     *)
(***************************************************************************)
\* The users (and pending registrations) the monolith's array grows to.
MaxUsers == 4

\* Emails of requests, and String.prototype.toLowerCase on them.
Emails ==
  {"admin@vyom.com", "ADMIN@vyom.com", "93anil199@gmail.com", "new@vyom.com", "New@vyom.com"}

toLowerCase(email) ==
  CASE email = "ADMIN@vyom.com" -> "admin@vyom.com"
    [] email = "New@vyom.com" -> "new@vyom.com"
    [] OTHER -> email

\* The emails sent to the auth service: whether its `email = ?` tells letter
\* case apart is the column's collation, which the CREATE TABLE leaves to the
\* server, so these differ in more than case.
LowerCaseEmails == {toLowerCase(email) : email \in Emails}

\* Passwords of requests: the key absent, the documented "any", another one.
Passwords == {Undefined, "any", "secret"}

\* The claims of the token generateToken signs.
generateToken(user) == [userId |-> user.id, email |-> user.email]

\* A response of a login or registration route that carries no token.
AuthError(route, email, password, status) ==
  [route |-> route, email |-> email, password |-> password, status |-> status,
   token |-> NoToken]

\* A row of the auth service's table users; password is the one that
\* password_hash was made from.
AuthRow(id, email, status) ==
  [id |-> id, email |-> email, password |-> "secret", status |-> status]

\* Contents of the auth service's table: email is UNIQUE, status is ACTIVE or
\* INACTIVE.
AuthTables ==
  {<<>>}
  \cup {<<AuthRow(1, "admin@vyom.com", s)>> : s \in {"ACTIVE", "INACTIVE"}}
  \cup {<<AuthRow(1, "admin@vyom.com", s1), AuthRow(2, "new@vyom.com", s2)>> :
          s1 \in {"ACTIVE", "INACTIVE"}, s2 \in {"ACTIVE", "INACTIVE"}}

\* The auth service's POST /login with `password === 'any' ||` left out.
AuthLoginComparingOnly(table, connected, email, password) ==
  LET found == SelectSeq(table, LAMBDA row: row.email = email /\ row.status = "ACTIVE")
  IN IF ~connected
     THEN AuthError("POST /login", email, password, 500)
     ELSE IF Len(found) = 0
     THEN AuthError("POST /login", email, password, 401)
     ELSE IF password = Undefined
     THEN AuthError("POST /login", email, password, 500)
     ELSE IF password # found[1].password
     THEN AuthError("POST /login", email, password, 401)
     ELSE [route |-> "POST /login", email |-> email, password |-> password,
           status |-> 200, token |-> generateToken(found[1])]

\* The auth service's POST /login. connected: whether db is set; db.execute
\* on an undefined db throws, as bcrypt.compare does on an undefined password,
\* and the catch block answers 500.
AuthLoginRespond(table, connected, email, password) ==
  LET found == SelectSeq(table, LAMBDA row: row.email = email /\ row.status = "ACTIVE")
  IN IF ~connected
     THEN AuthError("POST /login", email, password, 500)
     ELSE IF Len(found) = 0
     THEN AuthError("POST /login", email, password, 401)
     ELSE IF password # "any" /\ password = Undefined
     THEN AuthError("POST /login", email, password, 500)
     ELSE IF password # "any" /\ password # found[1].password
     THEN AuthError("POST /login", email, password, 401)
     ELSE [route |-> "POST /login", email |-> email, password |-> password,
           status |-> 200, token |-> generateToken(found[1])]

AuthLogin(email, password) ==
  /\ deployment = "microservices"
  /\ authReply' = AuthLoginRespond(authUsers, authDb, email, password)
  /\ UNCHANGED <<authDb, authUsers, users, registering>>
  /\ UNCHANGED <<gatewayVars, profileVars>>
  /\ UNCHANGED <<composerVars, deployment, wardrobeVars, outfitVars, monolithVars>>

\* The initial value of the monolith's `let users`.
SeedUsers ==
  <<[id |-> 1, email |-> "admin@vyom.com", status |-> "ACTIVE"],
    [id |-> 5, email |-> "93anil199@gmail.com", status |-> "ACTIVE"]>>

\* The monolith's POST /auth/login.
MonoLoginRespond(list, email, password) ==
  IF email = Undefined \/ Falsy(password)
  THEN AuthError("POST /auth/login", email, password, 400)
  ELSE LET found == SelectSeq(list, LAMBDA u: toLowerCase(u.email) = toLowerCase(email)
                                              /\ u.status = "ACTIVE")
       IN IF Len(found) = 0
          THEN AuthError("POST /auth/login", email, password, 401)
          ELSE [route |-> "POST /auth/login", email |-> email, password |-> password,
                status |-> 200, token |-> generateToken(found[1])]

MonoLogin(email, password) ==
  /\ deployment = "monolith"
  /\ authReply' = MonoLoginRespond(users, email, password)
  /\ UNCHANGED <<authDb, authUsers, users, registering>>
  /\ UNCHANGED <<gatewayVars, profileVars>>
  /\ UNCHANGED <<composerVars, deployment, wardrobeVars, outfitVars, monolithVars>>

\* Math.max(...list.map(u => u.id))
MaxId(list) ==
  CHOOSE m \in {list[j].id : j \in 1..Len(list)} : \A j \in 1..Len(list) : list[j].id <= m

\* The monolith's POST /auth/register up to `await bcrypt.hash(password, 10)`:
\* the required fields, then the search of users for the email. A handler that
\* passes both waits for the hash.
MonoRegisterStart(email, password, fullName) ==
  /\ deployment = "monolith"
  /\ Len(users) + Len(registering) < MaxUsers
  /\ IF email = Undefined \/ Falsy(password) \/ Falsy(fullName)
     THEN /\ authReply' = AuthError("POST /auth/register", email, password, 400)
          /\ UNCHANGED registering
     ELSE IF \E j \in 1..Len(users) : toLowerCase(users[j].email) = toLowerCase(email)
     THEN /\ authReply' = AuthError("POST /auth/register", email, password, 409)
          /\ UNCHANGED registering
     ELSE /\ registering' = Append(registering, [email |-> email, password |-> password])
          /\ UNCHANGED authReply
  /\ UNCHANGED <<authDb, authUsers, users>>
  /\ UNCHANGED <<gatewayVars, profileVars>>
  /\ UNCHANGED <<composerVars, deployment, wardrobeVars, outfitVars, monolithVars>>

\* The monolith's POST /auth/register from the await on, for the j-th waiting
\* handler: newUser is built and pushed, 201 is sent with its token.
MonoRegisterFinish(j) ==
  /\ j \in 1..Len(registering)
  /\ LET newUser == [id |-> MaxId(users) + 1, email |-> toLowerCase(registering[j].email),
                     status |-> "ACTIVE"]
     IN /\ users' = Append(users, newUser)
        /\ authReply' = [route |-> "POST /auth/register", email |-> registering[j].email,
                         password |-> registering[j].password, status |-> 201,
                         token |-> generateToken(newUser)]
  /\ registering' = [k \in 1..(Len(registering) - 1) |->
                       IF k < j THEN registering[k] ELSE registering[k + 1]]
  /\ UNCHANGED <<authDb, authUsers>>
  /\ UNCHANGED <<gatewayVars, profileVars>>
  /\ UNCHANGED <<composerVars, deployment, wardrobeVars, outfitVars, monolithVars>>

\* Either the auth service over one of its tables, its database connected or
\* not, or the monolith over its seed users.
AuthInit ==
  /\ ComposerIdle
  /\ OutfitIdle
  /\ gwProxy = NoProxy
  /\ gwHealth = NoHealth
  /\ registering = <<>>
  /\ authReply = NoAuthReply
  /\ user_profiles = <<>>
  /\ profilePending = <<>>
  /\ profileReply = NoProfileReply
  /\ clothing_items = <<>>
  /\ db = FALSE
  /\ nextObjectId = 1
  /\ pendingPut = NoPendingPut
  /\ clothingItems = <<>>
  /\ \/ /\ deployment = "microservices"
        /\ authDb \in BOOLEAN
        /\ authUsers \in AuthTables
        /\ users = <<>>
     \/ /\ deployment = "monolith"
        /\ authDb = FALSE
        /\ authUsers = <<>>
        /\ users = SeedUsers

AuthNext ==
  \/ \E email \in LowerCaseEmails, password \in Passwords : AuthLogin(email, password)
  \/ \E email \in Emails \cup {Undefined}, password \in Passwords :
       MonoLogin(email, password)
  \/ \E email \in Emails \cup {Undefined}, password \in Passwords,
        fullName \in {Undefined, "New User"} :
       MonoRegisterStart(email, password, fullName)
  \/ \E j \in 1..MaxUsers : MonoRegisterFinish(j)

SpecAuth == AuthInit /\ [][AuthNext]_vars

(***************************************************************************)
(* Profile service: GET /profile and PUT /profile over the collection      *)
(* user_profiles, whose index on userId is unique.                         *)
(***************************************************************************)
\* The handlers of /profile that may wait for a database call at one time.
MaxPending == 2

\* Bodies of PUT /profile: the fields to set; one names another userId.
ProfileBodies == {[bio |-> "tailor"], [userId |-> "admin", bio |-> "weaver"]}

\* The defaultProfile of GET /profile; displayName is the local part of the
\* email of the token, which the uuid stands for.
DefaultProfile(uuid) == [userId |-> uuid, displayName |-> uuid, bio |-> ""]

\* The positions of the documents matching { userId: uuid }.
MatchUserId(collection, uuid) ==
  {j \in 1..Len(collection) : collection[j].userId = uuid}

\* findOne({ userId: uuid }): the sequence of the first match, or empty for null.
FindOne(collection, uuid) ==
  IF MatchUserId(collection, uuid) = {}
  THEN <<>>
  ELSE <<collection[First(MatchUserId(collection, uuid))]>>

\* `delete updates._id; delete updates.userId` on a body of ProfileBodies.
ProfileUpdates(body) == [f \in DOMAIN body \ {"userId"} |-> body[f]]

\* updateOne({ userId: uuid }, { $set: updates, $setOnInsert: { userId } },
\* { upsert: true }): the first match is updated, or a document is inserted.
Upsert(collection, uuid, updates) ==
  IF MatchUserId(collection, uuid) = {}
  THEN Append(collection,
              [f \in {"userId"} \cup DOMAIN updates |->
                 IF f = "userId" THEN uuid ELSE updates[f]])
  ELSE [collection EXCEPT ![First(MatchUserId(collection, uuid))] =
          [f \in DOMAIN @ \cup DOMAIN updates |->
             IF f \in DOMAIN updates THEN updates[f] ELSE @[f]]]

\* The handler at position j has left profilePending.
WithoutPending(j) ==
  [k \in 1..(Len(profilePending) - 1) |->
     IF k < j THEN profilePending[k] ELSE profilePending[k + 1]]

ProfileSuccess(route, uuid, found) ==
  [route |-> route, userId |-> uuid, status |-> 200, profile |-> found]

ProfileFailure(route, uuid) ==
  [route |-> route, userId |-> uuid, status |-> 500, profile |-> <<>>]

\* GET /profile up to its second await: findOne. A profile found is sent; with
\* none the handler builds defaultProfile and calls insertOne.
ProfileGetFind(uuid) ==
  /\ deployment = "microservices"
  /\ Len(profilePending) < MaxPending
  /\ IF FindOne(user_profiles, uuid) # <<>>
     THEN /\ profileReply' = ProfileSuccess("GET /profile", uuid, FindOne(user_profiles, uuid))
          /\ UNCHANGED profilePending
     ELSE /\ profilePending' = Append(profilePending, [route |-> "GET /profile", uuid |-> uuid])
          /\ UNCHANGED profileReply
  /\ UNCHANGED user_profiles
  /\ UNCHANGED <<gatewayVars, authVars>>
  /\ UNCHANGED <<composerVars, deployment, wardrobeVars, outfitVars, monolithVars>>

\* GET /profile from insertOne(defaultProfile) on, for the j-th waiting
\* handler: the unique index rejects a second document of the userId with a
\* duplicate key error, which the catch block answers with 500.
ProfileGetInsert(j) ==
  /\ j \in 1..Len(profilePending)
  /\ profilePending[j].route = "GET /profile"
  /\ LET uuid == profilePending[j].uuid
     IN IF MatchUserId(user_profiles, uuid) # {}
        THEN /\ profileReply' = ProfileFailure("GET /profile", uuid)
             /\ UNCHANGED user_profiles
        ELSE /\ user_profiles' = Append(user_profiles, DefaultProfile(uuid))
             /\ profileReply' = ProfileSuccess("GET /profile", uuid, <<DefaultProfile(uuid)>>)
  /\ profilePending' = WithoutPending(j)
  /\ UNCHANGED <<gatewayVars, authVars>>
  /\ UNCHANGED <<composerVars, deployment, wardrobeVars, outfitVars, monolithVars>>

\* PUT /profile up to its second await: the upsert.
ProfilePutUpdate(uuid, body) ==
  /\ deployment = "microservices"
  /\ Len(profilePending) < MaxPending
  /\ user_profiles' = Upsert(user_profiles, uuid, ProfileUpdates(body))
  /\ profilePending' = Append(profilePending, [route |-> "PUT /profile", uuid |-> uuid])
  /\ UNCHANGED profileReply
  /\ UNCHANGED <<gatewayVars, authVars>>
  /\ UNCHANGED <<composerVars, deployment, wardrobeVars, outfitVars, monolithVars>>

\* PUT /profile from its findOne on, for the j-th waiting handler.
ProfilePutFind(j) ==
  /\ j \in 1..Len(profilePending)
  /\ profilePending[j].route = "PUT /profile"
  /\ profileReply' = ProfileSuccess("PUT /profile", profilePending[j].uuid,
                                    FindOne(user_profiles, profilePending[j].uuid))
  /\ profilePending' = WithoutPending(j)
  /\ UNCHANGED user_profiles
  /\ UNCHANGED <<gatewayVars, authVars>>
  /\ UNCHANGED <<composerVars, deployment, wardrobeVars, outfitVars, monolithVars>>

\* The profile service connected to its database, the collection empty.
ProfileInit ==
  /\ ComposerIdle
  /\ OutfitIdle
  /\ EdgeIdle
  /\ deployment = "microservices"
  /\ clothing_items = <<>>
  /\ db = FALSE
  /\ nextObjectId = 1
  /\ pendingPut = NoPendingPut
  /\ clothingItems = <<>>

ProfileNext ==
  \/ \E uuid \in Users : ProfileGetFind(uuid)
  \/ \E j \in 1..MaxPending : ProfileGetInsert(j)
  \/ \E uuid \in Users, body \in ProfileBodies : ProfilePutUpdate(uuid, body)
  \/ \E j \in 1..MaxPending : ProfilePutFind(j)

SpecProfile == ProfileInit /\ [][ProfileNext]_vars

(***************************************************************************)
(* Properties of the composer.                                             *)
(***************************************************************************)
\* The calls of the composer made so far.
CallsMade == {call \in {cFirst, cSecond} : call.made}

\* Number of entries of the outfit's item list whose category is in cats.
CountIn(outfit, cats) ==
  Cardinality({j \in 1..Len(outfit.items) : outfit.items[j].category \in cats})

\* Whether the catalog holds an item of the slot cats that passes the filter
\* of the requested preferences.
HasEligible(cats) ==
  \E j \in 1..Len(cItems) :
    /\ cItems[j].category \in cats
    /\ MatchesPreferences(cItems[j], OrDefault(cPrefs.occasion, "casual"),
                          OrDefault(cPrefs.season, "all-year"))

\* The outfits of a result, as a set.
OutfitsOf(call) == {call.outfits[j] : j \in 1..Len(call.outfits)}

\* C1: every candidate the composer returns contains at least one top-slot
\* item and at least one bottom-slot item, so a catalog with no eligible top or
\* no eligible bottom yields an empty result.
C1_EveryCandidateHasTopAndBottom ==
  \A call \in CallsMade : \A outfit \in OutfitsOf(call) :
    /\ CountIn(outfit, TopCategories) >= 1
    /\ CountIn(outfit, BottomCategories) >= 1

\* C2: with at least one eligible top and one eligible bottom the composer
\* returns at most 3 candidates, each with exactly one top-slot item and exactly
\* one bottom-slot item.
C2_AtMostThreeOneTopOneBottom ==
  (HasEligible(TopCategories) /\ HasEligible(BottomCategories)) =>
    \A call \in CallsMade :
      /\ Len(call.outfits) <= 3
      /\ \A outfit \in OutfitsOf(call) :
           /\ CountIn(outfit, TopCategories) = 1
           /\ CountIn(outfit, BottomCategories) = 1

\* C2's case: a call on a catalog with an eligible top and an eligible bottom
\* returned three candidates.
C2_Witness ==
  /\ HasEligible(TopCategories) /\ HasEligible(BottomCategories)
  /\ cFirst.made
  /\ Len(cFirst.outfits) = 3

\* A result with the ids of its outfits removed.
WithoutIds(outfits) ==
  [j \in 1..Len(outfits) |->
     [occasion |-> outfits[j].occasion, season |-> outfits[j].season,
      style |-> outfits[j].style, items |-> outfits[j].items,
      confidence |-> outfits[j].confidence,
      description |-> outfits[j].description]]

GenerateDone == deployment = "microservices" /\ pc = "done"

\* The outfits of the response, as a set.
ResponseOutfits == {response.outfits[j] : j \in 1..Len(response.outfits)}

\* The items of an outfit, as a set.
ItemsOf(outfit) == {outfit.items[j] : j \in 1..Len(outfit.items)}

\* The occasion the client supplied in the body: under `preferences`, or at the
\* top level.
SuppliedOccasion(body) ==
  IF body.preferences.occasion # Undefined THEN body.preferences.occasion
  ELSE body.occasion

\* C3: when the request specifies a non-empty occasion, no item whose occasion
\* tags lack that occasion appears in a returned candidate.
C3_OccasionFilterOnRequest ==
  (GenerateDone /\ ~Falsy(SuppliedOccasion(request.body))) =>
    \A outfit \in ResponseOutfits : \A item \in ItemsOf(outfit) :
      SuppliedOccasion(request.body) \in item.occasions

\* Degrees below which the weather is cold.
ColdThreshold == 70

\* The items of the requesting user in the store of the deployment.
RequesterItems ==
  LET store == IF deployment = "monolith" THEN clothingItems ELSE clothing_items
  IN SelectSeq(store, LAMBDA item: item.userId = request.token.uuid)

\* The requester owns an outerwear item that passes the filter of the request's
\* preferences. The monolithic gateway filters nothing and knows the category
\* "outerwear" alone.
HasEligibleOuterwear ==
  \E j \in 1..Len(RequesterItems) :
    /\ RequesterItems[j].category \in OuterwearCategories
    /\ \/ deployment = "monolith" /\ RequesterItems[j].category = "outerwear"
       \/ deployment = "microservices" /\
          MatchesPreferences(RequesterItems[j],
                             OrDefault(request.body.preferences.occasion, "casual"),
                             OrDefault(request.body.preferences.season, "all-year"))

\* A generation request was answered with candidates.
AnsweredWithOutfits ==
  /\ request.route \in {"POST /generate", "POST /outfits/generate"}
  /\ response.status = 200
  /\ \/ deployment = "monolith"
     \/ pc = "done"

\* C4: when weather.temperature is supplied below the cold threshold and an
\* outerwear item is eligible, every generated candidate includes an outerwear
\* item.
C4_ColdWeatherForcesOuterwear ==
  (/\ AnsweredWithOutfits
   /\ request.body.weather.given
   /\ request.body.weather.temperature < ColdThreshold
   /\ HasEligibleOuterwear) =>
    \A outfit \in ResponseOutfits :
      \E item \in ItemsOf(outfit) : item.category \in OuterwearCategories

\* The catalog fetch failed because the wardrobe service or its store did not
\* respond: no connection, or the service answering 500 for want of its store.
FetchUnavailable ==
  /\ reply.kind = "rejected"
  /\ \/ reply.code \in NetworkErrors
     \/ (reply.status = 500 /\ ~db)

\* The unavailable outcome.
IsUnavailableOutcome(res) == res.status = 503 /\ res.fallback

\* C5: a fetch that fails because the wardrobe service or its store did not
\* respond ends the request with 503 and the fallback indicator, without the
\* composer being called and after exactly one fetch.
C5_UnavailableFetchGives503 ==
  (GenerateDone /\ FetchUnavailable) =>
    /\ IsUnavailableOutcome(response)
    /\ composed = 0
    /\ fetches = 1

\* The success outcome with no candidates and an explanatory message.
IsEmptySuccessWithMessage(res) ==
  /\ res.status = 200
  /\ res.success
  /\ res.outfits = <<>>
  /\ "message" \in res.keys

\* A generation request of an authenticated user was answered from a catalog
\* holding none of the user's items.
AnsweredFromEmptyCatalog ==
  \/ GenerateDone /\ reply.kind = "resolved" /\ reply.success /\ Len(reply.items) = 0
  \/ /\ deployment = "monolith"
     /\ request.route = "POST /outfits/generate"
     /\ request.token.valid
     /\ Len(RequesterItems) = 0

\* C6: a generation request answered from an empty catalog gets the success
\* outcome with an empty candidate list and a message, never an error status,
\* in the outfit service and in the monolithic gateway.
C6_EmptyCatalogIsSuccess ==
  AnsweredFromEmptyCatalog => IsEmptySuccessWithMessage(response)

\* The fetched catalog holds an item of the slot cats that passes the filter of
\* the preferences the handler hands to the composer.
FetchedEligible(cats) ==
  \E j \in 1..Len(reply.items) :
    /\ reply.items[j].category \in cats
    /\ MatchesPreferences(reply.items[j],
                          OrDefault(request.body.preferences.occasion, "casual"),
                          OrDefault(request.body.preferences.season, "all-year"))

\* The fetched catalog is non-empty and no valid candidate can be formed of it:
\* it lacks an eligible top or an eligible bottom.
NoValidCandidate ==
  /\ reply.kind = "resolved" /\ reply.success
  /\ Len(reply.items) > 0
  /\ ~(FetchedEligible(TopCategories) /\ FetchedEligible(BottomCategories))

\* C7: with a non-empty catalog of which no valid candidate can be formed, the
\* response is a success with an empty candidate list and an explanatory
\* message.
C7_NoValidCandidateExplained ==
  (GenerateDone /\ NoValidCandidate) => IsEmptySuccessWithMessage(response)

\* C9: a failure of the catalog fetch reaches the caller with its kind
\* unchanged: a 401 or 403 of the wardrobe service as the same status, an
\* unavailable wardrobe service as the unavailable outcome.
C9_FetchFailureKindKept ==
  GenerateDone =>
    /\ (reply.kind = "rejected" /\ reply.status \in {401, 403}) =>
         response.status = reply.status
    /\ (reply.kind = "rejected" /\ reply.code \in {"ECONNREFUSED", "ENOTFOUND"}) =>
         IsUnavailableOutcome(response)

(***************************************************************************)
(* Properties of the wardrobe service.                                     *)
(***************************************************************************)
\* The documents of the collection owned by user u.
OwnedBy(collection, u) ==
  {collection[j] : j \in {k \in 1..Len(collection) : collection[k].userId = u}}

\* C10: item ownership is exclusive: a request of one user neither changes the
\* set of items owned by another user (adding, modifying, removing or
\* re-assigning an item) nor is answered with an item of another user.
C10_OwnershipExclusive ==
  [][\A u \in Users :
       u # request'.token.uuid =>
         /\ OwnedBy(clothing_items', u) = OwnedBy(clothing_items, u)
         /\ \A j \in 1..Len(response'.items) : response'.items[j].userId # u]_vars

(***************************************************************************)
(* Properties of the outfit service's request handling.                    *)
(***************************************************************************)
\* The token of the request passed authenticateToken.
TokenPassed == request.token.present /\ request.token.valid

\* C11: the catalog fetch and the composer are invoked only for requests that
\* passed token verification: a request without a token is answered 401, one
\* with an invalid or expired token 403, and for neither is the wardrobe
\* service called or the composer run.
C11_OnlyVerifiedRequestsFetchAndCompose ==
  (deployment = "microservices" /\ request.route = "POST /generate") =>
    /\ (fetches > 0 \/ composed > 0 \/ reply # NoReply) => TokenPassed
    /\ ~request.token.present =>
         (pc = "done" /\ response.status = 401 /\ response.outfits = <<>>)
    /\ (request.token.present /\ ~request.token.valid) =>
         (pc = "done" /\ response.status = 403 /\ response.outfits = <<>>)

\* C11's case: a request carrying a token jwt.verify rejects has been answered.
C11_Witness ==
  /\ GenerateDone
  /\ request.route = "POST /generate"
  /\ request.token.present /\ ~request.token.valid
  /\ response.status = 403

\* C12: when the client cancels its request before the catalog fetch
\* completes, the composer is not invoked for that request.
C12_CancelledRequestNeverComposes ==
  (deployment = "microservices" /\ request.route = "POST /generate" /\ cancelled) =>
    composed = 0

\* The catalog a fetch for the request being served returns now.
CatalogNow == SortByCreatedAtDesc(RequesterItems)

\* The response is one POST /generate gives on the catalog as it is now.
AnsweredFromCatalogNow ==
  \E rnd \in RandomStreams, now \in Times :
    response.outfits =
      generateOutfitRecommendation(CatalogNow, request.body.preferences, rnd, now)

\* C13: outfit generation is stateless and read-only: every request served
\* issues its own catalog fetch and is answered from the catalog as it was at
\* that fetch, whatever earlier requests fetched, and no step of a generation
\* request changes a stored catalog.
C13_OwnFetchAndReadOnly ==
  /\ [](request.route = "POST /generate" =>
          /\ (pc = "settled" /\ reply.kind = "resolved") =>
               (fetches = 1 /\ reply.items = CatalogNow)
          /\ (pc = "done" /\ response.status = 200) =>
               /\ fetches = 1
               /\ reply.kind = "resolved"
               /\ reply.items = CatalogNow
               /\ AnsweredFromCatalogNow)
  /\ [][request'.route = "POST /generate" =>
          UNCHANGED <<clothing_items, db, nextObjectId, pendingPut, clothingItems>>]_vars

\* C13's case: a request was answered with candidates in a session that began
\* with an empty catalog (the catalog changed before the request's fetch), the
\* store holding items of another user too.
C13_Witness ==
  /\ request.route = "POST /generate"
  /\ pc = "done"
  /\ Len(response.outfits) > 0
  /\ Len(clothing_items) > Len(reply.items)

\* C14: every candidate returned by an outfit-generation path (the outfit
\* service and the monolithic gateway) carries a confidence within
\* [0.85, 0.95], in thousandths [850, 950].
C14_ConfidenceInBand ==
  AnsweredWithOutfits =>
    \A outfit \in ResponseOutfits :
      outfit.confidence >= 850 /\ outfit.confidence <= 950

\* C14's case: the outfit service returned a candidate whose confidence lies
\* strictly inside the band.
C14_Witness ==
  /\ GenerateDone
  /\ \E outfit \in ResponseOutfits : outfit.confidence > 850 /\ outfit.confidence < 950

(***************************************************************************)
(* Properties of the eligibility filter.                                   *)
(***************************************************************************)
\* The requested season excludes no item: it is unset or "all-year".
SeasonFree == cPrefs.season \in {Undefined, "all-year"}

\* The item meets the season condition of the request.
SeasonMet(item) == SeasonFree \/ cPrefs.season \in item.seasons

\* The item meets the occasion condition of the request, the occasion
\* defaulting to "casual".
OccasionMet(item) ==
  \/ cPrefs.occasion = Undefined /\ "casual" \in item.occasions
  \/ cPrefs.occasion = ""
  \/ cPrefs.occasion \in item.occasions

\* The items of the catalog of the slot cats that meet both conditions, in
\* catalog order.
MeetingBoth(cats) ==
  SelectSeq(cItems, LAMBDA item: item.category \in cats /\ OccasionMet(item) /\ SeasonMet(item))

\* C15: with the season unset or "all-year" no item is excluded on season
\* grounds; otherwise an item is selected only if its season tags include the
\* requested season; and an item meeting the occasion and the season condition
\* is never excluded from its slot.
C15_SeasonEligibility ==
  cFirst.made =>
    /\ \A outfit \in OutfitsOf(cFirst) : \A j \in 1..Len(outfit.items) :
         SeasonMet(outfit.items[j]) /\ OccasionMet(outfit.items[j])
    /\ LET categories == Categorize(AvailableItems(cItems, cPrefs))
       IN /\ categories.top = MeetingBoth(TopCategories)
          /\ categories.bottom = MeetingBoth(BottomCategories)
          /\ categories.outerwear = MeetingBoth(OuterwearCategories)
          /\ categories.footwear = MeetingBoth(FootwearCategories)
          /\ categories.accessories = MeetingBoth(AccessoryCategories)

\* C15's case: a call asking for a season returned candidates from a catalog
\* holding an item without that season tag.
C15_Witness ==
  /\ cFirst.made
  /\ cPrefs.season = "summer"
  /\ Len(cFirst.outfits) > 0
  /\ \E j \in 1..Len(cItems) : "summer" \notin cItems[j].seasons

\* The preferences with each missing or empty field replaced by its default.
WithDefaults(preferences) ==
  [preferences EXCEPT !.occasion = IF Falsy(@) THEN "casual" ELSE @,
                      !.season = IF Falsy(@) THEN "all-year" ELSE @]

\* The item lists of the outfits of a result.
ItemLists(outfits) == [j \in 1..Len(outfits) |-> outfits[j].items]

\* C16: a missing or malformed preference field never makes the composer fail:
\* the composer selects as if occasion were "casual" and season "all-year" for
\* such a field.
C16_MalformedFieldsFallBackToDefaults ==
  cFirst.made =>
    ItemLists(cFirst.outfits) =
      ItemLists(generateOutfitRecommendation(cItems, WithDefaults(cPrefs), cRnd, cFirst.now))

(***************************************************************************)
(* Properties of the candidates.                                           *)
(***************************************************************************)
\* The catalog consists of tops only, one of them eligible.
OnlyTops ==
  /\ Len(cItems) >= 1
  /\ \A j \in 1..Len(cItems) : cItems[j].category \in TopCategories
  /\ HasEligible(TopCategories)

\* C17: for a catalog whose items are all top-category the composer returns an
\* empty sequence even though eligible items exist.
C17_OnlyTopsGiveNoCandidate ==
  (cFirst.made /\ OnlyTops) => cFirst.outfits = <<>>

\* C17's case: a call made on a catalog of eligible tops only.
C17_Witness ==
  /\ cFirst.made
  /\ OnlyTops
  /\ Len(cItems) >= 2

\* C18: within one result of the composer the ids of the candidates are
\* pairwise distinct.
C18_IdsDistinctInBatch ==
  \A call \in CallsMade :
    \A j, k \in 1..Len(call.outfits) :
      j # k => call.outfits[j].id # call.outfits[k].id

\* C18's case: a call returned three candidates.
C18_Witness ==
  /\ cFirst.made
  /\ Len(cFirst.outfits) = 3
  /\ cFirst.outfits[1].id # cFirst.outfits[3].id

\* The five slots.
Slots ==
  {TopCategories, BottomCategories, OuterwearCategories, FootwearCategories,
   AccessoryCategories}

\* C20: each candidate contains at most one item of each of the five slots, so
\* at most five items, all of them of a slot and eligible, and contains a
\* footwear item whenever an eligible footwear item exists.
C20_OnePerSlotFootwearWhenAvailable ==
  \A call \in CallsMade : \A outfit \in OutfitsOf(call) :
    /\ \A cats \in Slots : CountIn(outfit, cats) <= 1
    /\ Len(outfit.items) <= 5
    /\ \A j \in 1..Len(outfit.items) :
         /\ \E cats \in Slots : outfit.items[j].category \in cats
         /\ OccasionMet(outfit.items[j]) /\ SeasonMet(outfit.items[j])
         /\ \E n \in 1..Len(cItems) : cItems[n] = outfit.items[j]
    /\ HasEligible(FootwearCategories) => CountIn(outfit, FootwearCategories) = 1

\* C20's case: a candidate with footwear, built from a catalog holding an
\* eligible footwear item.
C20_Witness ==
  /\ cFirst.made
  /\ HasEligible(FootwearCategories)
  /\ \E outfit \in OutfitsOf(cFirst) : CountIn(outfit, FootwearCategories) = 1

(***************************************************************************)
(* Properties of the stored attributes.                                    *)
(***************************************************************************)
\* POST /items has just stored an item.
JustCreated ==
  request.route = "POST /items" /\ response.status = 200 /\ Len(response.items) = 1

\* C19: every stored clothing item has a non-negative purchase price and a
\* non-negative wear count, and an item just created by POST /items has wear
\* count 0 and favorite = false whatever the body contained.
C19_StoredAttributesValid ==
  /\ \A j \in 1..Len(clothing_items) :
       clothing_items[j].purchasePrice >= 0 /\ clothing_items[j].wearCount >= 0
  /\ JustCreated =>
       (response.items[1].wearCount = 0 /\ response.items[1].favorite = FALSE)

(***************************************************************************)
(* Properties of the gateway, the auth service, the profile service and    *)
(* the wardrobe service's PUT and DELETE.                                  *)
(***************************************************************************)
\* The wardrobe service was unreachable for the outfit service's fetch.
WardrobeUnreachable == reply.kind = "rejected" /\ reply.code \in NetworkErrors

\* C21: proxyRequest makes exactly one downstream call and sends exactly one
\* response per proxied request; an answer of the downstream service is relayed
\* with status and body unchanged; a refused connection gives 503 with the
\* unavailable message, every other failure the generic 500; and when the
\* wardrobe service is unreachable behind the outfit service, the gateway's
\* client receives 503, never 500.
C21_ProxyRelaysAndKeeps503 ==
  /\ gwProxy.calls <= 1
  /\ gwProxy.sent <= 1
  /\ gwProxy.pc = "done" =>
       /\ gwProxy.calls = 1
       /\ gwProxy.sent = 1
       /\ pc = "done" => gwProxy.response = response
       /\ gwProxy.failure = "ECONNREFUSED" =>
            /\ gwProxy.response.status = 503
            /\ gwProxy.response.error = "Service temporarily unavailable"
       /\ gwProxy.failure \in NetworkErrors \ {"ECONNREFUSED"} =>
            /\ gwProxy.response.status = 500
            /\ gwProxy.response.error = "Gateway error"
       /\ WardrobeUnreachable => gwProxy.response.status = 503

\* The part of C21 about proxyRequest alone: one call, one response, relay
\* unchanged, 503 on a refused connection and 500 on any other failure.
ProxyRequestAlone ==
  /\ gwProxy.calls <= 1
  /\ gwProxy.sent <= 1
  /\ gwProxy.pc = "done" =>
       /\ gwProxy.calls = 1
       /\ gwProxy.sent = 1
       /\ pc = "done" => gwProxy.response = response
       /\ gwProxy.failure = "ECONNREFUSED" => gwProxy.response.status = 503
       /\ gwProxy.failure \in NetworkErrors \ {"ECONNREFUSED"} =>
            gwProxy.response.status = 500


\* Whether the login answered last was for an email that has an ACTIVE account
\* in the store of the service that answered it.
LoginHasActiveAccount ==
  IF authReply.route = "POST /login"
  THEN \E j \in 1..Len(authUsers) :
         authUsers[j].email = authReply.email /\ authUsers[j].status = "ACTIVE"
  ELSE \E j \in 1..Len(users) :
         /\ toLowerCase(users[j].email) = toLowerCase(authReply.email)
         /\ users[j].status = "ACTIVE"

LoginAnswered == authReply.route \in {"POST /login", "POST /auth/login"}

\* The login answered last reached the store: of the auth service, whose
\* database is connected, or of the monolith.
LoginStoreReached == authReply.route = "POST /login" => authDb

UsersWithEmail(email) ==
  {j \in 1..Len(users) : toLowerCase(users[j].email) = toLowerCase(email)}

\* C23: in the monolith, whatever the interleaving of POST /auth/register
\* requests, no two users share an email (letter case apart) and no two share
\* an id; a registration for an email already registered is answered 409 and
\* adds no user, so a registration answered 201 leaves its email with one user.
C23_EmailsAndIdsStayUnique ==
  /\ \A j, k \in 1..Len(users) :
       j # k => /\ toLowerCase(users[j].email) # toLowerCase(users[k].email)
                /\ users[j].id # users[k].id
  /\ (authReply.route = "POST /auth/register" /\ authReply.status = 201) =>
       Cardinality(UsersWithEmail(authReply.email)) = 1

\* The part of C23 about ids alone.
IdsStayUnique ==
  \A j, k \in 1..Len(users) : j # k => users[j].id # users[k].id

\* C24: in the profile service, whatever the interleaving of the GET /profile
\* and PUT /profile requests of a user, the collection holds at most one
\* profile per user id, and every GET /profile is answered with success and
\* the user's profile, never with 500.
ProfilesUniqueAndGetSucceeds ==
  /\ \A uuid \in Users : Cardinality(MatchUserId(user_profiles, uuid)) <= 1
  /\ profileReply.route = "GET /profile" =>
       /\ profileReply.status = 200
       /\ Len(profileReply.profile) = 1
       /\ profileReply.profile[1].userId = profileReply.userId

\* C24, with its sentence about a step: no request changes the userId of a
\* stored profile.
C24_OneProfilePerUserAndGetSucceeds ==
  /\ []ProfilesUniqueAndGetSucceeds
  /\ [][\A j \in 1..Len(user_profiles) :
          user_profiles'[j].userId = user_profiles[j].userId]_vars

\* The part of C24 about the store alone.
ProfilesStayUnique ==
  /\ [](\A uuid \in Users : Cardinality(MatchUserId(user_profiles, uuid)) <= 1)
  /\ [][\A j \in 1..Len(user_profiles) :
          user_profiles'[j].userId = user_profiles[j].userId]_vars

\* What holds of GET /health at every moment: no service is probed twice and
\* no second response is sent; once the response is sent, every service has
\* been probed once, each service's entry tells how its own probe ended, and
\* the status is 200 if all four probes were healthy and 503 otherwise.
HealthProbesOnceAndReports ==
  /\ gwHealth.sent <= 1
  /\ \A j \in 1..Len(Services) : gwHealth.probes[j] <= 1
  /\ gwHealth.sent = 1 =>
       /\ \A j \in 1..Len(Services) : gwHealth.probes[j] = 1
       /\ Len(gwHealth.healthChecks) = Len(Services)
       /\ \A j \in 1..Len(Services) :
            /\ gwHealth.healthChecks[j].name = Services[j]
            /\ gwHealth.healthChecks[j].status = "healthy" <=> gwHealth.outcomes[j] = "2xx"
       /\ gwHealth.status = 200 <=> \A j \in 1..Len(Services) : gwHealth.outcomes[j] = "2xx"
       /\ gwHealth.status \in {200, 503}

\* C25: the health check probes every configured service exactly once, also
\* after a probe that failed; it always ends with one response; the response
\* is 200 if and only if all four services were healthy, and otherwise 503
\* with the status of each service reported.
C25_HealthProbesAllAndAnswersOnce ==
  /\ []HealthProbesOnceAndReports
  /\ (gwHealth.index > 0) ~> (gwHealth.sent = 1)

\* C25 witness: the response is 503 after the first probe failed and a later
\* probe found its service healthy.
C25_Witness ==
  /\ gwHealth.sent = 1
  /\ gwHealth.status = 503
  /\ gwHealth.outcomes[1] # "2xx"
  /\ gwHealth.outcomes[Len(Services)] = "2xx"
  /\ gwHealth.healthChecks[Len(Services)].status = "healthy"

\* The step is the updateOne of a PUT /items/:id, or a DELETE /items/:id, of
\* a request that passed authenticateToken, the database being connected.
PutOrDeleteStep ==
  /\ db
  /\ request'.token.present /\ request'.token.valid
  /\ \/ request'.route = "PUT /items/:id" /\ ~pendingPut.active
     \/ request'.route = "DELETE /items/:id"

\* The id the step's request addresses is the _id of no item of the requester:
\* of no item at all, or of an item of another user.
AddressesNoOwnItem ==
  \A j \in 1..Len(clothing_items) :
    clothing_items[j].id = request'.body.id =>
      clothing_items[j].userId # request'.token.uuid

\* A DELETE that succeeds removes the addressed item and no other.
DeleteRemovesAddressedOnly ==
  (request'.route = "DELETE /items/:id" /\ response'.status = 200) =>
    /\ Len(clothing_items') = Len(clothing_items) - 1
    /\ clothing_items' =
         SelectSeq(clothing_items, LAMBDA item: item.id # request'.body.id)

\* C26: in the wardrobe service, a PUT or DELETE on an item id that does not
\* exist or belongs to another user is answered 404 and leaves the whole store
\* unchanged; a DELETE that succeeds removes the addressed item and no other.
C26_MissingOrForeignIdIs404 ==
  [][PutOrDeleteStep =>
       /\ AddressesNoOwnItem =>
            /\ response'.status = 404
            /\ clothing_items' = clothing_items
       /\ DeleteRemovesAddressedOnly]_vars

\* The part of C26 that holds: the store is left unchanged whenever the id
\* addresses no item of the requester, the answer being 404 for an id that is
\* an ObjectId string and 500 for one that is not; and a DELETE that succeeds
\* removes the addressed item and no other.
StoreKeptAnd404ForObjectIds ==
  [][PutOrDeleteStep =>
       /\ AddressesNoOwnItem =>
            /\ response'.status = IF request'.body.id = MalformedId THEN 500 ELSE 404
            /\ clothing_items' = clothing_items
       /\ DeleteRemovesAddressedOnly]_vars

====
